---- MODULE Spec2Model ----
(***************************************************************************)
(* prospyr/mixins.py: the CRUD mixins (Creatable, Readable, Updateable,    *)
(* Deletable) and CustomFieldMixin, as a state machine over one resource.  *)
(*                                                                         *)
(* Python values are encoded uniformly as records [t, v] where t is the    *)
(* Python type and v a sequence of sequences of integers: a string is its  *)
(* sequence of character codes, an int n is <<n>>.                         *)
(***************************************************************************)
EXTENDS Integers, Sequences, FiniteSets, TLC

VARIABLES has_id, id, raw_data, last, prev, custom_fields, cf_last

vars == <<has_id, id, raw_data, last, prev, custom_fields, cf_last>>

crud_vars == <<has_id, id, raw_data, last, prev>>

cf_vars == <<custom_fields, cf_last>>

----------------------------------------------------------------------------
(* Bounds of the model.                                                    *)

\* resource ids are 1..MaxId
MaxId == 2

\* number of custom fields in the raw data at construction
MaxFields == 2

----------------------------------------------------------------------------
(* Python values.                                                          *)

None == [t |-> "None", v |-> <<>>]

PyInt(n) == [t |-> "int", v |-> <<<<n>>>>]

PyFloat(n) == [t |-> "float", v |-> <<<<n>>>>]

PyStr(s) == [t |-> "str", v |-> <<s>>]

PyList(xs) == [t |-> "list", v |-> [i \in 1..Len(xs) |-> <<xs[i]>>]]

PyStrList(ss) == [t |-> "list", v |-> ss]

\* the elements of a list value, each as a Python value
IntItems(x) == [i \in 1..Len(x.v) |-> x.v[i][1]]

\* Python truthiness: None, 0, 0.0, '' and [] are false
Truthy(x) ==
    CASE x.t = "None" -> FALSE
      [] x.t = "int" -> x.v[1][1] # 0
      [] x.t = "float" -> x.v[1][1] # 0
      [] x.t = "str" -> Len(x.v[1]) > 0
      [] x.t = "list" -> Len(x.v) > 0
      [] OTHER -> TRUE

\* character codes
ChSpace == 32
ChComma == 44
ChZero == 48
ChNine == 57
ChUpperA == 65
ChUpperZ == 90
ChLowerOffset == 32
ChOpen == 91
ChClose == 93

----------------------------------------------------------------------------
(* Dictionaries: functions from keys to values.                            *)

EmptyDict == [k \in {} |-> 0]

Has(d, k) == k \in DOMAIN d

Put(d, k, x) == [y \in DOMAIN d \cup {k} |-> IF y = k THEN x ELSE d[y]]

Pop(d, k) == [y \in DOMAIN d \ {k} |-> d[y]]

\* keys of a override keys of b
Merge(a, b) == [y \in DOMAIN a \cup DOMAIN b |-> IF y \in DOMAIN a THEN a[y] ELSE b[y]]

----------------------------------------------------------------------------
(* Text conversions used by update: int(), float() and eval() of a list.   *)

IsDigits(s) == Len(s) > 0 /\ \A i \in 1..Len(s) : s[i] >= ChZero /\ s[i] <= ChNine

RECURSIVE ParseDigits(_)
ParseDigits(s) ==
    IF Len(s) = 0 THEN 0
    ELSE 10 * ParseDigits(SubSeq(s, 1, Len(s) - 1)) + (s[Len(s)] - ChZero)

\* the pieces of s between commas
RECURSIVE SplitComma(_)
SplitComma(s) ==
    IF \A i \in 1..Len(s) : s[i] # ChComma THEN <<s>>
    ELSE LET k == CHOOSE i \in 1..Len(s) :
                      s[i] = ChComma /\ \A j \in 1..(i - 1) : s[j] # ChComma
         IN <<SubSeq(s, 1, k - 1)>> \o SplitComma(SubSeq(s, k + 1, Len(s)))

\* "[1,2]" is the text of a list of integers
IsListText(s) ==
    /\ Len(s) >= 2
    /\ s[1] = ChOpen
    /\ s[Len(s)] = ChClose
    /\ \/ Len(s) = 2
       \/ LET parts == SplitComma(SubSeq(s, 2, Len(s) - 1))
          IN \A i \in 1..Len(parts) : IsDigits(parts[i])

ParseListText(s) ==
    IF Len(s) = 2 THEN <<>>
    ELSE LET parts == SplitComma(SubSeq(s, 2, Len(s) - 1))
         IN [i \in 1..Len(parts) |-> ParseDigits(parts[i])]

Ok(x) == [exc |-> "", value |-> x]

Err(e) == [exc |-> e, value |-> None]

\* int(x)
int(x) ==
    CASE x.t = "int" -> Ok(x)
      [] x.t = "float" -> Ok(PyInt(x.v[1][1]))
      [] x.t = "str" -> IF IsDigits(x.v[1]) THEN Ok(PyInt(ParseDigits(x.v[1])))
                        ELSE Err("ValueError")
      [] OTHER -> Err("TypeError")

\* float(x), on integer-valued numerals
float(x) ==
    CASE x.t = "int" -> Ok(PyFloat(x.v[1][1]))
      [] x.t = "float" -> Ok(x)
      [] x.t = "str" -> IF IsDigits(x.v[1]) THEN Ok(PyFloat(ParseDigits(x.v[1])))
                        ELSE Err("ValueError")
      [] OTHER -> Err("TypeError")

\* [int(v) for v in eval(x)]
eval_int_list(x) ==
    IF x.t # "str" THEN Err("TypeError")
    ELSE IF IsListText(x.v[1]) THEN Ok(PyList(ParseListText(x.v[1])))
    ELSE IF IsDigits(x.v[1]) THEN Err("TypeError")
    ELSE Err("SyntaxError")

TYPE_STRING == "String"
TYPE_TEXT == "Text"
TYPE_FLOAT == "Float"
TYPE_URL == "URL"
TYPE_PERCENTAGE == "Percentage"
TYPE_CURRENCY == "Currency"
TYPE_DROPDOWN == "Dropdown"
TYPE_MULTISELECT == "MultiSelect"
TYPE_DATE == "Date"

\* the wire value of one raw custom field (update, "convert to PW style")
EncodeValue(cf) ==
    IF cf.has_value THEN
        CASE cf.data_type = TYPE_DROPDOWN ->
                 IF Truthy(cf.value) THEN int(cf.value) ELSE Ok(None)
          [] cf.data_type = TYPE_MULTISELECT -> eval_int_list(cf.value)
          [] cf.data_type = TYPE_FLOAT ->
                 IF Truthy(cf.value) THEN float(cf.value) ELSE Ok(None)
          [] cf.data_type = TYPE_DATE ->
                 IF Truthy(cf.value) THEN int(cf.value) ELSE Ok(None)
          [] OTHER -> Ok(cf.value)
    ELSE Ok(PyStr(<<>>))

\* the entry update appends for one raw custom field
WireField(cf) == [custom_field_definition_id |-> cf.id, value |-> EncodeValue(cf).value]

\* the entries the conversion loop appends while it walks cfs
ConvertFields(cfs) == [i \in 1..Len(cfs) |-> WireField(cfs[i])]

\* the exception of the first field whose conversion raises, "" if none does
ConvertError(cfs) ==
    IF \A i \in 1..Len(cfs) : EncodeValue(cfs[i]).exc = "" THEN ""
    ELSE LET k == CHOOSE i \in 1..Len(cfs) :
                      /\ EncodeValue(cfs[i]).exc # ""
                      /\ \A j \in 1..(i - 1) : EncodeValue(cfs[j]).exc = ""
         IN EncodeValue(cfs[k]).exc

----------------------------------------------------------------------------
(* The resource, the connection and the server's answers.                  *)

codes_ok == 200
codes_created == 201
codes_unprocessable_entity == 422


\* a create that takes 201 alone for success
_create_success_codes_created_only == {codes_created}

_create_success_codes == {codes_created, codes_ok}
_read_success_codes == {codes_ok}
_update_success_codes == {codes_ok}
_delete_success_codes == {codes_ok}

\* the statuses the server answers with: the three the code names, and two others
Statuses == {codes_ok, codes_created, codes_unprocessable_entity, 404, 500}

Messages == {"email invalid", "name required"}

\* email / emails arguments; "" stands for the default None (both are false)
EmailArgs == {"", "new@example.com"}

EmailEntry(address) == [email |-> address, category |-> "work"]

\* the custom fields of the account, in the shape the raw data holds them
AccountFields ==
    << [id |-> 11, data_type |-> TYPE_DROPDOWN, has_value |-> TRUE, value |-> PyStr(<<53>>)],
       [id |-> 12, data_type |-> TYPE_MULTISELECT, has_value |-> TRUE,
        value |-> PyStr(<<ChOpen, 49, ChComma, 50, ChClose>>)],
       [id |-> 13, data_type |-> TYPE_FLOAT, has_value |-> TRUE, value |-> PyInt(3)],
       [id |-> 14, data_type |-> TYPE_DATE, has_value |-> TRUE, value |-> None],
       [id |-> 15, data_type |-> TYPE_STRING, has_value |-> FALSE, value |-> None] >>

FieldWindows ==
    { SubSeq(AccountFields, a, b) : a \in 1..Len(AccountFields), b \in 1..Len(AccountFields) }

\* the lists of at most n consecutive account fields
RawFieldLists(n) == { cfs \in {<<>>} \cup FieldWindows : Len(cfs) <= n }

\* the fields of the resource's schema; the wire carries others too
Fields == {"id", "name", "email", "emails", "custom_fields"}

\* wire -> local normalization: the schema's fields of the response body
_load_raw(json) == [k \in DOMAIN json \cap Fields |-> json[k]]

\* response bodies of a successful create or read
WireBodies ==
    { ("id" :> PyInt(i)) @@ ("name" :> "Ann") @@ ("custom_fields" :> cfs)
          @@ ("date_modified" :> "today")
      : i \in 1..MaxId, cfs \in {<<>>, SubSeq(AccountFields, 1, 1)} }

Response(status, json, text) == [status_code |-> status, json |-> json, text |-> text]

NoResponse == Response(0, EmptyDict, "")

Responses ==
    { Response(s, b, "") : s \in {codes_ok, codes_created}, b \in WireBodies }
    \cup { Response(codes_unprocessable_entity, "message" :> m, "") : m \in Messages }
    \cup { Response(s, EmptyDict, "server said no") :
              s \in Statuses \ {codes_ok, codes_created, codes_unprocessable_entity} }

create_path == [template |-> "create_path", id |-> None]

\* Meta.detail_path.format(id=self.id)
detail_path(i) == [template |-> "detail_path", id |-> i]

build_absolute_url(path) == [base |-> "default", path |-> path]

Request(method, path, json) ==
    [method |-> method, url |-> build_absolute_url(path), json |-> json]

\* getattr(self, 'id', None)
getattr_id == IF has_id THEN id ELSE None

\* what a call did: its arguments, the requests it sent, the answer, the outcome
Call(op, email, emails, sent, resp, result, exc, exc_status, exc_msg) ==
    [op |-> op, email |-> email, emails |-> emails, sent |-> sent, resp |-> resp,
     result |-> result, exc |-> exc, exc_status |-> exc_status, exc_msg |-> exc_msg]

Raised(op, email, emails, sent, resp, exc, exc_status, exc_msg) ==
    Call(op, email, emails, sent, resp, "raise", exc, exc_status, exc_msg)

\* _set_fields(data): the resource takes the fields of data
SetFields(data, raw) ==
    /\ has_id' = (has_id \/ Has(data, "id"))
    /\ id' = IF Has(data, "id") THEN data["id"] ELSE id
    /\ raw_data' = Merge(data, raw)

NoCustomFieldCall == [op |-> "", field_name |-> <<>>, value |-> None, ret |-> None]

Remember == prev' = [op |-> last.op, result |-> last.result]

Init ==
    /\ has_id \in BOOLEAN
    /\ id \in IF has_id THEN {PyInt(i) : i \in 1..MaxId} ELSE {None}
    /\ \E cfs \in RawFieldLists(MaxFields), e \in {"", "old@example.com"},
          es \in {"absent", "empty", "one"} :
          raw_data =
              Merge(IF has_id THEN "id" :> id ELSE EmptyDict,
              Merge(IF e # "" THEN "email" :> EmailEntry(e) ELSE EmptyDict,
              Merge(CASE es = "absent" -> EmptyDict
                      [] es = "empty" -> "emails" :> <<>>
                      [] es = "one" -> "emails" :> <<EmailEntry("old@example.com")>>,
                    ("name" :> "Ann") @@ ("custom_fields" :> cfs))))
    /\ last = Call("", "", "", <<>>, NoResponse, "", "", 0, "")
    /\ prev = [op |-> "", result |-> ""]
    /\ custom_fields = <<>>
    /\ cf_last = NoCustomFieldCall

----------------------------------------------------------------------------
(* Creatable, Readable, Updateable, Deletable.                             *)


\* a status switch without the unprocessable-entity branch
create_update_outcome_no_422(success_codes, resp) ==
    IF resp.status_code \in success_codes
    THEN [result |-> "True", exc |-> "", exc_status |-> 0, exc_msg |-> ""]
    ELSE [result |-> "raise", exc |-> "ApiError", exc_status |-> resp.status_code,
          exc_msg |-> resp.text]

\* the status switch of create and update: the outcome of an answered request
create_update_outcome(success_codes, resp) ==
    IF resp.status_code \in success_codes
    THEN [result |-> "True", exc |-> "", exc_status |-> 0, exc_msg |-> ""]
    ELSE IF resp.status_code = codes_unprocessable_entity
    THEN [result |-> "raise", exc |-> "ValueError", exc_status |-> 0,
          exc_msg |-> resp.json["message"]]
    ELSE [result |-> "raise", exc |-> "ApiError", exc_status |-> resp.status_code,
          exc_msg |-> resp.text]

\* the status switch of read and delete
read_delete_outcome(success_codes, resp) ==
    IF resp.status_code \in success_codes
    THEN [result |-> "True", exc |-> "", exc_status |-> 0, exc_msg |-> ""]
    ELSE [result |-> "raise", exc |-> "ApiError", exc_status |-> resp.status_code,
          exc_msg |-> resp.text]

Finish(op, email, emails, sent, resp, o) ==
    last' = Call(op, email, emails, sent, resp, o.result, o.exc, o.exc_status, o.exc_msg)


\* a create without its guard
create_refuses_never == FALSE

\* hasattr(self, 'id')
create_refuses == has_id

\* the body create posts: the raw data itself, with the email argument injected
create_data(raw, email) ==
    IF email # "" THEN Put(raw, "email", [category |-> "work", email |-> email]) ELSE raw

create(email) ==
    /\ Remember
    /\ UNCHANGED cf_vars
    /\ IF create_refuses
       THEN /\ last' = Raised("create", email, "", <<>>, NoResponse, "ValueError", 0,
                              "cannot be created; it already has an id")
            /\ UNCHANGED <<has_id, id, raw_data>>
       ELSE \E resp \in Responses :
              LET data == create_data(raw_data, email)
                  sent == <<Request("POST", create_path, data)>>
                  o == create_update_outcome(_create_success_codes, resp)
              IN /\ Finish("create", email, "", sent, resp, o)
                 /\ IF o.result = "True"
                    THEN SetFields(_load_raw(resp.json), data)
                    ELSE raw_data' = data /\ UNCHANGED <<has_id, id>>

\* Readable._get_path refuses a resource without an id
_get_path_refuses == getattr_id = None

read ==
    /\ Remember
    /\ UNCHANGED cf_vars
    /\ IF _get_path_refuses
       THEN /\ last' = Raised("read", "", "", <<>>, NoResponse, "ValueError", 0,
                              "must be saved before it is read")
            /\ UNCHANGED <<has_id, id, raw_data>>
       ELSE \E resp \in Responses :
              LET sent == <<Request("GET", detail_path(id), EmptyDict)>>
                  o == read_delete_outcome(_read_success_codes, resp)
              IN /\ Finish("read", "", "", sent, resp, o)
                 /\ IF o.result = "True"
                    THEN SetFields(_load_raw(resp.json), raw_data)
                    ELSE UNCHANGED <<has_id, id, raw_data>>


\* an update without its guard
update_refuses_never == FALSE

update_refuses == getattr_id = None

\* data['email']['email'] = email, or the "work" entry when the key is missing
update_email(d, email) ==
    IF email = "" THEN d
    ELSE IF Has(d, "email") THEN Put(d, "email", [d["email"] EXCEPT !.email = email])
    ELSE Put(d, "email", [email |-> email, category |-> "work"])

\* data['emails'][0].email = emails: the exception it raises ("" if none) and the data.
\* The entries of the raw data are dicts, which take no attribute.
update_emails(d, emails) ==
    IF emails = "" THEN [exc |-> "", data |-> d]
    ELSE IF ~Has(d, "emails")
    THEN [exc |-> "", data |-> Put(d, "emails", <<[email |-> emails, category |-> "work"]>>)]
    ELSE IF Len(d["emails"]) = 0 THEN [exc |-> "IndexError", data |-> d]
    ELSE [exc |-> "AttributeError", data |-> d]


\* an update that forgets to drop the id
pop_id_forgotten(d) == d

\* data.pop('id')
pop_id(d) == Pop(d, "id")

\* the body update builds, in place, in the raw data: the exception that stops it
\* ("" if it reaches the PUT) and the raw data at that point
update_data(raw, email, emails) ==
    LET d1 == Put(raw, "custom_fields", <<>>)
    IN IF ~Has(d1, "id") THEN [exc |-> "KeyError", data |-> d1]
       ELSE LET d2 == pop_id(d1)
                cfs == d2["custom_fields"]
            IN IF ConvertError(cfs) # "" THEN [exc |-> ConvertError(cfs), data |-> d2]
               ELSE LET d3 == Put(d2, "custom_fields", cfs \o ConvertFields(cfs))
                    IN update_emails(update_email(d3, email), emails)

update(email, emails) ==
    /\ Remember
    /\ UNCHANGED cf_vars
    /\ IF update_refuses
       THEN /\ last' = Raised("update", email, emails, <<>>, NoResponse, "ValueError", 0,
                              "cannot be deleted before it is saved")
            /\ UNCHANGED <<has_id, id, raw_data>>
       ELSE LET u == update_data(raw_data, email, emails)
            IN /\ raw_data' = u.data
               /\ UNCHANGED <<has_id, id>>
               /\ IF u.exc # ""
                  THEN last' = Raised("update", email, emails, <<>>, NoResponse, u.exc, 0, "")
                  ELSE \E resp \in Responses :
                         Finish("update", email, emails,
                                <<Request("PUT", detail_path(id), u.data)>>, resp,
                                create_update_outcome(_update_success_codes, resp))

delete_refuses == getattr_id = None

delete ==
    /\ Remember
    /\ UNCHANGED cf_vars
    /\ UNCHANGED <<has_id, id, raw_data>>
    /\ IF delete_refuses
       THEN last' = Raised("delete", "", "", <<>>, NoResponse, "ValueError", 0,
                           "cannot be deleted before it is saved")
       ELSE \E resp \in Responses :
              Finish("delete", "", "", <<Request("DELETE", detail_path(id), EmptyDict)>>, resp,
                     read_delete_outcome(_delete_success_codes, resp))

Next ==
    \/ \E email \in EmailArgs : create(email)
    \/ read
    \/ \E email \in EmailArgs, emails \in EmailArgs : update(email, emails)
    \/ delete

Spec == Init /\ [][Next]_vars

----------------------------------------------------------------------------
(* Properties of the CRUD mixins.                                          *)

\* the ValueError a guard raises before any request (the spec's PreconditionError)
PreconditionError(c) ==
    /\ c.result = "raise"
    /\ c.exc = "ValueError"
    /\ c.exc_msg \in {"cannot be created; it already has an id",
                      "must be saved before it is read",
                      "cannot be deleted before it is saved"}

\* the ValueError raised for an answer (the spec's ValidationError)
ValidationError(c, msg) == c.result = "raise" /\ c.exc = "ValueError" /\ c.exc_msg = msg

ApiError(c, status, text) ==
    c.result = "raise" /\ c.exc = "ApiError" /\ c.exc_status = status /\ c.exc_msg = text

ResourceUnchanged == UNCHANGED <<has_id, id, raw_data, custom_fields>>

\* C1: create on a resource without an id sends exactly one POST to the creation
\* path; answered 200 or 201 it returns True and the resource has the id of the
\* normalized response body.
C1_CreatePostsOnceAndTakesId ==
    [][(last'.op = "create" /\ getattr_id = None) =>
          /\ Len(last'.sent) = 1
          /\ last'.sent[1].method = "POST"
          /\ last'.sent[1].url = build_absolute_url(create_path)
          /\ (last'.resp.status_code \in {codes_ok, codes_created} =>
                /\ last'.result = "True"
                /\ has_id'
                /\ id' = last'.resp.json["id"]
                /\ raw_data'["id"] = last'.resp.json["id"])]_vars

C1_Witness ==
    /\ last.op = "create"
    /\ last.result = "True"
    /\ last.resp.status_code = codes_ok
    /\ Len(last.sent) = 1
    /\ has_id
    /\ id = last.resp.json["id"]

\* C2: create on a resource that has an id raises the precondition error, sends
\* nothing and changes nothing; so does a create that follows a successful create.
C2_CreateWithIdRefused ==
    [][(last'.op = "create" /\ (has_id \/ (last.op = "create" /\ last.result = "True"))) =>
          /\ PreconditionError(last')
          /\ last'.sent = <<>>
          /\ ResourceUnchanged]_vars

C2_Witness ==
    /\ prev.op = "create"
    /\ prev.result = "True"
    /\ last.op = "create"
    /\ PreconditionError(last)
    /\ last.sent = <<>>

\* C3: read, update and delete on a resource whose id is None or absent raise the
\* precondition error, send nothing and leave id, raw data and custom fields alone.
C3_NoIdRefused ==
    [][(last'.op \in {"read", "update", "delete"} /\ getattr_id = None) =>
          /\ PreconditionError(last')
          /\ last'.sent = <<>>
          /\ ResourceUnchanged]_vars

C3_Witness ==
    /\ ~has_id
    /\ Len(raw_data["custom_fields"]) > 0
    /\ prev.op = "read"
    /\ prev.result = "raise"
    /\ last.op = "update"
    /\ PreconditionError(last)
    /\ last.sent = <<>>

SuccessCodesOf(op) == IF op = "create" THEN {codes_ok, codes_created} ELSE {codes_ok}

\* C4: a create or update answered 422 raises the validation error with the
\* server's message; answered any other non-success status it raises ApiError
\* with the status and the raw body.
C4_StatusErrors ==
    (last.op \in {"create", "update"} /\ Len(last.sent) = 1) =>
        /\ (last.resp.status_code = codes_unprocessable_entity =>
               ValidationError(last, last.resp.json["message"]))
        /\ (last.resp.status_code \notin SuccessCodesOf(last.op) \cup {codes_unprocessable_entity} =>
               ApiError(last, last.resp.status_code, last.resp.text))

C4_Witness ==
    /\ last.op = "update"
    /\ Len(last.sent) = 1
    /\ last.resp.status_code = codes_unprocessable_entity
    /\ ValidationError(last, "email invalid")

\* C5: the body of a PUT sent by update never has the key id.
C5_PutBodyHasNoId ==
    \A i \in 1..Len(last.sent) :
        last.sent[i].method = "PUT" => ~Has(last.sent[i].json, "id")

C5_Witness ==
    /\ last.op = "update"
    /\ last.email # ""
    /\ Len(last.sent) = 1
    /\ last.sent[1].method = "PUT"
    /\ Has(last.sent[1].json, "email")
    /\ has_id

\* C6: the PUT body's custom_fields are the conversions, in order, of the custom
\* fields the raw data held before the call.
C6_PutBodyConvertsFields ==
    [][(last'.op = "update" /\ Len(last'.sent) = 1) =>
          last'.sent[1].json["custom_fields"] = ConvertFields(raw_data["custom_fields"])]_vars

\* C7: an update given email (emails) reaches the PUT with that address in the
\* body's email (first emails entry), whether the raw data had the field or not.
C7_EmailArgumentsReachPut ==
    [][(last'.op = "update" /\ getattr_id # None /\ Has(raw_data, "id")) =>
          /\ (last'.email # "" =>
                /\ Len(last'.sent) = 1
                /\ last'.sent[1].json["email"].email = last'.email
                /\ (~Has(raw_data, "email") => last'.sent[1].json["email"].category = "work"))
          /\ (last'.emails # "" =>
                /\ Len(last'.sent) = 1
                /\ last'.sent[1].json["emails"][1].email = last'.emails
                /\ (~Has(raw_data, "emails") =>
                       last'.sent[1].json["emails"][1].category = "work"))]_vars

\* C10: an update or delete answered 200 leaves id and raw data as they were, and
\* an update repeated after a successful one sends the same body and succeeds again.
C10_UpdateDeleteRepeatable ==
    [][/\ (last'.op \in {"update", "delete"} /\ last'.result = "True") =>
             UNCHANGED <<has_id, id, raw_data>>
       /\ (/\ last.op = "update" /\ last.result = "True"
           /\ last'.op = "update" /\ last'.email = last.email /\ last'.emails = last.emails) =>
             /\ Len(last'.sent) = 1
             /\ last'.sent = last.sent
             /\ (last'.resp.status_code = codes_ok => last'.result = "True")]_vars

----------------------------------------------------------------------------
(* CustomFieldMixin.                                                       *)

\* number of options of a field
MaxOptions == 2

\* option ids are 0..MaxOptionId
MaxOptionId == 2

\* str.lower()
Lower(s) ==
    [i \in 1..Len(s) |->
        IF s[i] >= ChUpperA /\ s[i] <= ChUpperZ THEN s[i] + ChLowerOffset ELSE s[i]]

\* str.strip(), of spaces
RECURSIVE Strip(_)
Strip(s) ==
    IF Len(s) = 0 THEN s
    ELSE IF s[1] = ChSpace THEN Strip(Tail(s))
    ELSE IF s[Len(s)] = ChSpace THEN Strip(SubSeq(s, 1, Len(s) - 1))
    ELSE s

\* ','.join(names)
RECURSIVE Join(_)
Join(names) ==
    IF Len(names) = 0 THEN <<>>
    ELSE IF Len(names) = 1 THEN names[1]
    ELSE names[1] \o <<ChComma>> \o Join(Tail(names))

ScalarTypes == {TYPE_STRING, TYPE_TEXT, TYPE_FLOAT, TYPE_URL, TYPE_PERCENTAGE, TYPE_CURRENCY}

\* datetime.fromtimestamp(ts).date(), as the number of the day (UTC)
DateOf(x) == [t |-> "date", v |-> <<<<x.v[1][1] \div 86400>>>>]

\* the inner loop of the dropdown branch of get: the name of the last option whose
\* id is the stored value, else the value so far
RECURSIVE DropdownName(_, _, _)
DropdownName(options, stored, value) ==
    IF Len(options) = 0 THEN value
    ELSE DropdownName(Tail(options), stored,
                      IF PyInt(options[1].id) = stored THEN PyStr(options[1].name) ELSE value)

\* the names of the options whose id is val, in option order
RECURSIVE NamesWithId(_, _)
NamesWithId(options, val) ==
    IF Len(options) = 0 THEN <<>>
    ELSE (IF options[1].id = val THEN <<options[1].name>> ELSE <<>>)
         \o NamesWithId(Tail(options), val)

\* the nested loops of the multiselect branch of get
RECURSIVE MultiselectNames(_, _)
MultiselectNames(options, vals) ==
    IF Len(vals) = 0 THEN <<>>
    ELSE NamesWithId(options, vals[1]) \o MultiselectNames(options, Tail(vals))

\* what get assigns to value for one field whose name matched and whose value is true
DecodeField(field, value) ==
    CASE field.data_type \in ScalarTypes -> field.value
      [] field.data_type = TYPE_DROPDOWN -> DropdownName(field.options, field.value, value)
      [] field.data_type = TYPE_MULTISELECT ->
             PyStr(Join(MultiselectNames(field.options, IntItems(field.value))))
      [] field.data_type = TYPE_DATE -> DateOf(field.value)
      [] OTHER -> value

\* the loop of get_custom_field_value over the fields, value carried along
RECURSIVE GetLoop(_, _, _)
GetLoop(fields, field_name, value) ==
    IF Len(fields) = 0 THEN value
    ELSE GetLoop(Tail(fields), field_name,
                 IF fields[1].name = field_name /\ Truthy(fields[1].value)
                 THEN DecodeField(fields[1], value)
                 ELSE value)

get_custom_field_value_of(fields, field_name) == GetLoop(fields, field_name, PyStr(<<>>))

\* the option names set compares: lower-cased and stripped
NormalName(s) == Strip(Lower(s))

\* the inner loop of the dropdown branch of set: the id of the last option whose
\* name matches, else the stored value
RECURSIVE DropdownId(_, _, _)
DropdownId(options, wanted, stored) ==
    IF Len(options) = 0 THEN stored
    ELSE DropdownId(Tail(options), wanted,
                    IF NormalName(options[1].name) = NormalName(wanted)
                    THEN PyInt(options[1].id) ELSE stored)

\* the ids of the options named val exactly, in option order
RECURSIVE IdsWithName(_, _)
IdsWithName(options, val) ==
    IF Len(options) = 0 THEN <<>>
    ELSE (IF options[1].name = val THEN <<options[1].id>> ELSE <<>>)
         \o IdsWithName(Tail(options), val)


\* the loops of set swapped: options outside, names inside
RECURSIVE MultiselectIds_by_option(_, _)
MultiselectIds_by_option(options, vals) ==
    IF Len(options) = 0 THEN <<>>
    ELSE (IF \E j \in 1..Len(vals) : vals[j] = options[1].name
          THEN <<options[1].id>> ELSE <<>>)
         \o MultiselectIds_by_option(Tail(options), vals)

\* the nested loops of the multiselect branch of set
RECURSIVE MultiselectIds(_, _)
MultiselectIds(options, vals) ==
    IF Len(vals) = 0 THEN <<>>
    ELSE IdsWithName(options, vals[1]) \o MultiselectIds(options, Tail(vals))

\* the value set stores in one field whose name matched
EncodeField(field, value) ==
    IF value = None THEN None
    ELSE CASE field.data_type \in ScalarTypes -> value
           [] field.data_type = TYPE_DROPDOWN ->
                  DropdownId(field.options, value.v[1], field.value)
           [] field.data_type = TYPE_MULTISELECT ->
                  PyList(MultiselectIds(field.options, value.v))
           [] field.data_type = TYPE_DATE -> value
           [] OTHER -> field.value

\* the loop of set_custom_field_value: every field of that name takes the value
set_custom_field_value_of(fields, field_name, value) ==
    [i \in 1..Len(fields) |->
        IF fields[i].name = field_name
        THEN [fields[i] EXCEPT !.value = EncodeField(fields[i], value)]
        ELSE fields[i]]


\* field and option names, as character codes
NameSize == <<83, 105, 122, 101>>
NameTags == <<84, 97, 103, 115>>
NameNote == <<78, 111, 116, 101>>
NameNone == <<78, 111>>
NameLarge == <<76, 97, 114, 103, 101>>
NameRed == <<82, 101, 100>>
NameBlue == <<66, 108, 117, 101>>
NameGreen == <<71, 114, 101, 101, 110>>
NameOther == <<122, 122>>

\* the i-th option of a field is named OptionNames[i]
OptionNames == <<NameLarge, NameRed, NameBlue, NameGreen>>

Injective(f) == \A a, b \in DOMAIN f : a # b => f[a] # f[b]

\* lists of 1..MaxOptions options with distinct ids (and distinct names)
OptionLists ==
    UNION { { [i \in 1..n |-> [id |-> ids[i], name |-> OptionNames[i]]] :
                ids \in { f \in [1..n -> 0..MaxOptionId] : Injective(f) } }
            : n \in 1..MaxOptions }

Field(name, data_type, options) ==
    [name |-> name, data_type |-> data_type, value |-> None, options |-> options]

\* spellings of an option name that match it once lower-cased and stripped
Spellings(name) == {name, Lower(name), <<ChSpace>> \o name \o <<ChSpace>>}

\* sequences of distinct elements of S, no longer than n
DistinctSeqs(S, n) ==
    UNION { { f \in [1..k -> S] : Injective(f) } : k \in 0..n }

\* the values a caller passes for the field called field_name
ArgsFor(fields, field_name) ==
    {None} \cup
    UNION { CASE fields[i].data_type = TYPE_DROPDOWN ->
                   { PyStr(x) : x \in {NameOther} \cup
                        UNION { Spellings(fields[i].options[k].name) :
                                   k \in 1..Len(fields[i].options) } }
              [] fields[i].data_type = TYPE_MULTISELECT ->
                   { PyStrList(ns) :
                        ns \in DistinctSeqs({NameOther} \cup
                                   { fields[i].options[k].name : k \in 1..Len(fields[i].options) },
                                   Len(fields[i].options)) }
              [] OTHER -> {PyStr(NameOther)}
            : i \in { j \in 1..Len(fields) : fields[j].name = field_name } }

FieldNames == {NameSize, NameTags, NameNote, NameNone}

CustomFieldCall(op, field_name, value, ret) ==
    [op |-> op, field_name |-> field_name, value |-> value, ret |-> ret]

set_custom_field_value(field_name, value) ==
    /\ custom_fields' = set_custom_field_value_of(custom_fields, field_name, value)
    /\ cf_last' = CustomFieldCall("set", field_name, value, None)
    /\ UNCHANGED crud_vars

get_custom_field_value(field_name) ==
    /\ cf_last' = CustomFieldCall("get", field_name, None,
                                  get_custom_field_value_of(custom_fields, field_name))
    /\ UNCHANGED custom_fields
    /\ UNCHANGED crud_vars

InitCF ==
    /\ has_id = FALSE
    /\ id = None
    /\ raw_data = ("name" :> "Ann") @@ ("custom_fields" :> <<>>)
    /\ last = Call("", "", "", <<>>, NoResponse, "", "", 0, "")
    /\ prev = [op |-> "", result |-> ""]
    /\ cf_last = NoCustomFieldCall
    /\ \E options \in OptionLists :
         \E f \in {Field(NameSize, TYPE_DROPDOWN, options),
                   Field(NameTags, TYPE_MULTISELECT, options)} :
          custom_fields \in {<<Field(NameNote, TYPE_STRING, <<>>), f>>,
                             <<f, Field(NameNote, TYPE_STRING, <<>>)>>}

NextCF ==
    \/ \E field_name \in FieldNames :
          \E value \in ArgsFor(custom_fields, field_name) :
             set_custom_field_value(field_name, value)
    \/ \E field_name \in FieldNames : get_custom_field_value(field_name)

SpecCF == InitCF /\ [][NextCF]_vars

----------------------------------------------------------------------------
(* Properties of CustomFieldMixin.                                         *)

\* the call c named field i of fields, a dropdown, with a spelling of its option k
DropdownCallMatches(c, fields, i, k) ==
    /\ fields[i].name = c.field_name
    /\ fields[i].data_type = TYPE_DROPDOWN
    /\ k \in 1..Len(fields[i].options)
    /\ c.value.t = "str"
    /\ Strip(Lower(c.value.v[1])) = Strip(Lower(fields[i].options[k].name))

\* C8: set on a dropdown with a spelling of an option's name stores that option's
\* id, and a get that follows returns that option's name, whatever the id.
C8_DropdownSetThenGet ==
    [][\A i \in 1..Len(custom_fields) : \A k \in 1..MaxOptions :
          /\ (cf_last'.op = "set" /\ DropdownCallMatches(cf_last', custom_fields, i, k)) =>
                custom_fields'[i].value = PyInt(custom_fields[i].options[k].id)
          /\ (/\ cf_last.op = "set" /\ DropdownCallMatches(cf_last, custom_fields, i, k)
              /\ cf_last'.op = "get" /\ cf_last'.field_name = cf_last.field_name) =>
                cf_last'.ret = PyStr(custom_fields[i].options[k].name)]_vars

IsOptionName(options, n) == \E k \in 1..Len(options) : options[k].name = n

IdOfName(options, n) == options[CHOOSE k \in 1..Len(options) : options[k].name = n].id

NameOfId(options, x) == options[CHOOSE k \in 1..Len(options) : options[k].id = x].name

\* the ids of the names of ns that are option names, in the order of ns
IdsInOrder(options, ns) ==
    LET valid == SelectSeq(ns, LAMBDA n : IsOptionName(options, n))
    IN [j \in 1..Len(valid) |-> IdOfName(options, valid[j])]

\* the call c named field i of fields, a multiselect, with a list of names
MultiselectCall(c, fields, i) ==
    /\ fields[i].name = c.field_name
    /\ fields[i].data_type = TYPE_MULTISELECT
    /\ c.value.t = "list"

\* C9: set on a multiselect with a sequence of names stores the ids of the matching
\* options in the order of the names; get on a stored list of option ids returns
\* their names in that order, comma-joined; so set with valid distinct names and
\* then get returns those names comma-joined.
C9_MultiselectSetThenGet ==
    [][\A i \in 1..Len(custom_fields) :
          /\ (cf_last'.op = "set" /\ MultiselectCall(cf_last', custom_fields, i)) =>
                custom_fields'[i].value =
                    PyList(IdsInOrder(custom_fields[i].options, cf_last'.value.v))
          /\ (/\ cf_last'.op = "get"
              /\ custom_fields[i].name = cf_last'.field_name
              /\ custom_fields[i].data_type = TYPE_MULTISELECT
              /\ custom_fields[i].value.t = "list") =>
                cf_last'.ret =
                    PyStr(Join([j \in 1..Len(custom_fields[i].value.v) |->
                                  NameOfId(custom_fields[i].options,
                                           custom_fields[i].value.v[j][1])]))
          /\ (/\ cf_last.op = "set" /\ MultiselectCall(cf_last, custom_fields, i)
              /\ \A j \in 1..Len(cf_last.value.v) :
                    IsOptionName(custom_fields[i].options, cf_last.value.v[j])
              /\ cf_last'.op = "get" /\ cf_last'.field_name = cf_last.field_name) =>
                cf_last'.ret = PyStr(Join(cf_last.value.v))]_vars

\* a get has returned two names, comma-joined, in the order opposite to the options'
C9_Witness ==
    /\ cf_last.op = "get"
    /\ \E i \in 1..Len(custom_fields) :
          /\ custom_fields[i].name = cf_last.field_name
          /\ custom_fields[i].data_type = TYPE_MULTISELECT
          /\ Len(custom_fields[i].options) >= 2
          /\ custom_fields[i].value =
                 PyList(<<custom_fields[i].options[2].id, custom_fields[i].options[1].id>>)
          /\ cf_last.ret = PyStr(custom_fields[i].options[2].name \o <<ChComma>>
                                 \o custom_fields[i].options[1].name)

====
